---- MODULE Spec2Model ----
(***************************************************************************)
(* A model of the CodeZip Analyst application: the App component's state   *)
(* and handlers (src/types.ts) and the analysis client analyzeCodebase     *)
(* (src/services/geminiService.ts).                                        *)
(*                                                                         *)
(* Strings are sequences of text pieces.  A path, a name, an extension and *)
(* a file's content are spelled one character per piece; the fixed text of *)
(* a template literal is a single piece.  Concatenation is \o.             *)
(***************************************************************************)
EXTENDS Integers, Sequences, FiniteSets, TLC

(***************************************************************************)
(* Bounds of the model.                                                    *)
(***************************************************************************)
\* The largest number of regular files in an archive given to the selector.
MaxEntries == 32
\* How far beyond the per-file cap the longest content reaches.
ExtraChars == 1000
\* How many uploads, and how many analyses, a behaviour of the App starts.
MaxUploads == 2
MaxRuns == 2

(***************************************************************************)
(* Program constants.                                                      *)
(***************************************************************************)
\* textFiles.slice(0, 30)
MaxFiles == 30
\* f.content.substring(0, 5000)
MaxChars == 5000

Min(a, b) == IF a <= b THEN a ELSE b

(***************************************************************************)
(* Characters.                                                             *)
(***************************************************************************)
Digits == <<"0", "1", "2", "3", "4", "5", "6", "7", "8", "9">>
UpperCase ==
    <<"A", "B", "C", "D", "E", "F", "G", "H", "I", "J", "K", "L", "M",
      "N", "O", "P", "Q", "R", "S", "T", "U", "V", "W", "X", "Y", "Z">>
LowerCase ==
    <<"a", "b", "c", "d", "e", "f", "g", "h", "i", "j", "k", "l", "m",
      "n", "o", "p", "q", "r", "s", "t", "u", "v", "w", "x", "y", "z">>

\* The characters of paths, in UTF-16 code unit order.
CodeUnitOrder == <<".", "/">> \o Digits \o UpperCase \o <<"_">> \o LowerCase
PathChars == {CodeUnitOrder[i] : i \in 1..Len(CodeUnitOrder)}

IndexIn(seq, c) == CHOOSE i \in 1..Len(seq) : seq[i] = c
IsUpper(c) == \E i \in 1..Len(UpperCase) : UpperCase[i] = c

\* String.prototype.toLowerCase, one character.
ToLowerChar(c) == IF IsUpper(c) THEN LowerCase[IndexIn(UpperCase, c)] ELSE c
ToLowerCase(s) == [i \in 1..Len(s) |-> ToLowerChar(s[i])]

\* String.prototype.endsWith
EndsWith(s, suffix) ==
    /\ Len(s) >= Len(suffix)
    /\ SubSeq(s, Len(s) - Len(suffix) + 1, Len(s)) = suffix

\* String.prototype.substring(0, n)
Substring0(s, n) == SubSeq(s, 1, Min(n, Len(s)))

(***************************************************************************)
(* String.prototype.localeCompare.  The result is implementation defined:  *)
(* a host with a collator orders by the CLDR root collation (punctuation,  *)
(* digits, then letters, a lower-case letter before its upper-case one     *)
(* only when everything else ties); a host without one compares code units.*)
(***************************************************************************)
Collations == {"cldrRoot", "codeUnit"}

CodeUnit == [c \in PathChars |-> IndexIn(CodeUnitOrder, c)]
PrimaryOrder == <<"_", ".", "/">> \o Digits \o LowerCase
PrimaryWeight == [c \in PathChars |-> IndexIn(PrimaryOrder, ToLowerChar(c))]
TertiaryWeight == [c \in PathChars |-> IF IsUpper(c) THEN 1 ELSE 0]

RECURSIVE CompareBy(_, _, _, _)
CompareBy(w, a, b, i) ==
    IF i > Len(a) /\ i > Len(b) THEN 0
    ELSE IF i > Len(a) THEN -1
    ELSE IF i > Len(b) THEN 1
    ELSE IF w[a[i]] < w[b[i]] THEN -1
    ELSE IF w[a[i]] > w[b[i]] THEN 1
    ELSE CompareBy(w, a, b, i + 1)

LocaleCompare(collation, a, b) ==
    IF collation = "codeUnit" THEN CompareBy(CodeUnit, a, b, 1)
    ELSE LET p == CompareBy(PrimaryWeight, a, b, 1)
         IN  IF p # 0 THEN p ELSE CompareBy(TertiaryWeight, a, b, 1)

\* Array.prototype.sort with (a, b) => a.path.localeCompare(b.path): a stable
\* sort, here by insertion.
RECURSIVE InsertByPath(_, _, _)
InsertByPath(collation, sorted, e) ==
    IF sorted = <<>> THEN <<e>>
    ELSE IF LocaleCompare(collation, e.path, sorted[Len(sorted)].path) >= 0
         THEN Append(sorted, e)
         ELSE Append(InsertByPath(collation, SubSeq(sorted, 1, Len(sorted) - 1), e),
                     sorted[Len(sorted)])

RECURSIVE SortByPath(_, _)
SortByPath(collation, entries) ==
    IF entries = <<>> THEN <<>>
    ELSE InsertByPath(collation,
                      SortByPath(collation, SubSeq(entries, 1, Len(entries) - 1)),
                      entries[Len(entries)])

(***************************************************************************)
(* isLikelyText                                                            *)
(***************************************************************************)
textExtensions ==
    << <<".", "t", "s">>, <<".", "t", "s", "x">>, <<".", "j", "s">>,
       <<".", "j", "s", "x">>, <<".", "j", "s", "o", "n">>,
       <<".", "h", "t", "m", "l">>, <<".", "c", "s", "s">>, <<".", "m", "d">>,
       <<".", "t", "x", "t">>, <<".", "p", "y">>, <<".", "r", "b">>,
       <<".", "g", "o">>, <<".", "j", "a", "v", "a">>, <<".", "c">>,
       <<".", "c", "p", "p">>, <<".", "r", "s">>, <<".", "p", "h", "p">> >>

isLikelyText(filename) ==
    \E i \in 1..Len(textExtensions) :
        EndsWith(ToLowerCase(filename), textExtensions[i])

(***************************************************************************)
(* analyzeCodebase, up to the request: the filter, the slice, the map and  *)
(* the join.                                                               *)
(***************************************************************************)
FileLabel == <<"F", "I", "L", "E", ":", " ">>
ContentLabel == <<"\n", "C", "O", "N", "T", "E", "N", "T", ":", "\n">>
Separator == <<"\n", "\n", "-", "-", "-", "\n", "\n">>
\* The fixed text of the prompt around the context, each a single piece.
PromptHead == "You are a world-class code analyst [...] primary files in the project:"
PromptTail == "Please analyze this project. [...] entry point and key dependencies."

IsTextFile(f) == ~f.isDirectory /\ isLikelyText(f.name)

\* Array.prototype.filter with f => !f.isDirectory && isLikelyText(f.name)
RECURSIVE TextFiles(_)
TextFiles(files) ==
    IF files = <<>> THEN <<>>
    ELSE LET rest == TextFiles(SubSeq(files, 1, Len(files) - 1))
             last == files[Len(files)]
         IN  IF IsTextFile(last) THEN Append(rest, last) ELSE rest

\* Array.prototype.slice(0, n)
Slice0(seq, n) == SubSeq(seq, 1, Min(n, Len(seq)))

ContextFilesUncapped(files) == TextFiles(files)
ContextFiles(files) == Slice0(TextFiles(files), MaxFiles)

BlockUntruncated(f) == FileLabel \o f.path \o ContentLabel \o f.content
Block(f) == FileLabel \o f.path \o ContentLabel \o Substring0(f.content, MaxChars)

\* Array.prototype.join
RECURSIVE JoinTrailing(_, _)
JoinTrailing(strings, sep) ==
    IF strings = <<>> THEN <<>>
    ELSE JoinTrailing(SubSeq(strings, 1, Len(strings) - 1), sep)
             \o strings[Len(strings)] \o sep
RECURSIVE Join(_, _)
Join(strings, sep) ==
    IF strings = <<>> THEN <<>>
    ELSE IF Len(strings) = 1 THEN strings[1]
    ELSE Join(SubSeq(strings, 1, Len(strings) - 1), sep)
             \o sep \o strings[Len(strings)]

FilesContext(contextFiles) ==
    Join([k \in 1..Len(contextFiles) |-> Block(contextFiles[k])], Separator)

Prompt(filesContext) == <<PromptHead>> \o filesContext \o <<PromptTail>>

(***************************************************************************)
(* Archives.  An archive is the list of JSZip's entries, in the order of   *)
(* Object.keys(content.files); a directory's name ends in "/".             *)
(***************************************************************************)
ZipFileEntry(name, text) == [name |-> name, dir |-> FALSE, text |-> text]
ZipDirEntry(name) == [name |-> name, dir |-> TRUE, text |-> <<>>]

\* One extracted entry: the body of the map over Object.keys(content.files).
ExtractEntry(z) ==
    IF z.dir
    THEN [name |-> z.name, path |-> z.name, content |-> <<>>, isDirectory |-> TRUE]
    ELSE [name |-> z.name, path |-> z.name, content |-> z.text, isDirectory |-> FALSE]

\* "f01.ts", "f02.ts", ...
RegularPath(i) == <<"f", Digits[(i \div 10) + 1], Digits[(i % 10) + 1], ".", "t", "s">>
RegularEntry(i) == ZipFileEntry(RegularPath(i), <<Digits[(i % 10) + 1], "\n">>)
RegularEntries(n) == [i \in 1..n |-> RegularEntry(i)]

\* A content of the given length that repeats with period 5.
Content(len) == [i \in 1..len |-> <<"a", "\n", "b", "-", "c">>[(i % 5) + 1]]
\* A content that spells a separator and a block of its own.
ForgedContent == <<"x">> \o Separator \o FileLabel \o <<"y">> \o ContentLabel \o <<"z">>

ExtraEntries ==
    { ZipDirEntry(<<"s", "r", "c", "/">>),
      ZipDirEntry(<<"a", ".", "t", "s", "/">>),
      ZipFileEntry(<<"Z", ".", "t", "s">>, <<"u">>),
      ZipFileEntry(<<"g", ".", "T", "S", "X">>, <<"v">>),
      ZipFileEntry(<<"f", "0", "0", ".", "p", "n", "g">>, <<"w">>),
      ZipFileEntry(<<"f", "0", "0">>, <<"m">>),
      ZipFileEntry(<<"t", "s">>, <<"n">>),
      ZipFileEntry(<<"a", "/", ".", "m", "d">>, ForgedContent),
      ZipFileEntry(<<"e", ".", "c">>, <<>>) }

ContentLengths == {0, 1, MaxChars - 1, MaxChars, MaxChars + 1, MaxChars + ExtraChars}

\* The archives given to the selector: up to MaxEntries regular files with at
\* most one extra entry after them, and one long file beside a short one.
SelArchives ==
    {RegularEntries(n) : n \in 0..MaxEntries}
    \cup {Append(RegularEntries(n), x) : n \in 0..MaxEntries, x \in ExtraEntries}
    \cup {<<ZipFileEntry(<<"b", ".", "p", "y">>, <<"q">>),
            ZipFileEntry(<<"a", ".", "j", "s">>, Content(len))>> :
              len \in ContentLengths}

\* The archives of the App's behaviours.
AppArchives ==
    { <<ZipFileEntry(<<"m", ".", "g", "o">>, <<"p">>)>>,
      <<ZipFileEntry(<<"s", "/", "b", ".", "r", "s">>, <<"q">>),
        ZipDirEntry(<<"s", "/">>)>>,
      <<>> }

\* The file of a change event: its name, whether JSZip can load it, and its
\* entries when it can.
ZipName == <<"a", ".", "z", "i", "p">>
UploadFile(name, valid, entries) == [name |-> name, valid |-> valid, entries |-> entries]
SelInputFiles == {UploadFile(ZipName, TRUE, a) : a \in SelArchives}
AppInputFiles ==
    {UploadFile(ZipName, TRUE, a) : a \in AppArchives}
    \cup {UploadFile(ZipName, FALSE, <<>>),
          UploadFile(<<"a", ".", "Z", "I", "P">>, TRUE, <<>>),
          UploadFile(<<"a", ".", "t", "x", "t">>, FALSE, <<>>)}

(***************************************************************************)
(* The upstream service and the rest of analyzeCodebase.                   *)
(***************************************************************************)
Fields == {"summary", "entryPoint", "dependencies", "executionSimulation", "suggestions"}

\* The declared responseSchema: every field required, with its type.
SchemaType ==
    [f \in Fields |-> IF f \in {"dependencies", "suggestions"} THEN "stringArray" ELSE "string"]

CompleteValue == SchemaType
MissingDependencies == [SchemaType EXCEPT !["dependencies"] = "absent"]
WrongTypeSuggestions == [SchemaType EXCEPT !["suggestions"] = "string"]

\* response.text: JSON text of an object, text that is no JSON, or undefined.
JsonText(value) == [kind |-> "json", value |-> value]
GarbageText == [kind |-> "garbage"]
UndefinedText == [kind |-> "undefined"]
Bodies ==
    {JsonText(CompleteValue), JsonText(MissingDependencies),
     JsonText(WrongTypeSuggestions), GarbageText, UndefinedText}

\* What generateContent rejects with.
UpstreamErrors == {"network error", "timeout", "status 429"}
SyntaxError == "SyntaxError"

Resolved(body) == [kind |-> "resolved", body |-> body]
Rejected(err) == [kind |-> "rejected", error |-> err]
UpstreamEvents == {Resolved(b) : b \in Bodies} \cup {Rejected(e) : e \in UpstreamErrors}

\* JSON.parse: the value, or a SyntaxError thrown.
JSONParse(text) ==
    IF text.kind = "json"
    THEN [threw |-> FALSE, value |-> text.value]
    ELSE [threw |-> TRUE, error |-> SyntaxError]

Succeeded(value) == [kind |-> "Succeeded", value |-> value]
Failed(err) == [kind |-> "Failed", error |-> err]

\* How the promise of analyzeCodebase settles: `await` rethrows what
\* generateContent rejects with; otherwise JSON.parse(response.text) is returned.
SettleWrapped(event) ==
    IF event.kind = "rejected" THEN Failed("Error")
    ELSE LET parsed == JSONParse(event.body)
         IN  IF parsed.threw THEN Failed(parsed.error) ELSE Succeeded(parsed.value)
Settle(event) ==
    IF event.kind = "rejected" THEN Failed(event.error)
    ELSE LET parsed == JSONParse(event.body)
         IN  IF parsed.threw THEN Failed(parsed.error) ELSE Succeeded(parsed.value)

IsAnalysisResult(value) == \A f \in Fields : value[f] = SchemaType[f]

(***************************************************************************)
(* The App's state.                                                        *)
(***************************************************************************)
VARIABLES
    collation,      \* how this host's localeCompare orders
    files,          \* useState<ZipFile[]>([])
    isUploading,    \* useState(false)
    isAnalyzing,    \* useState(false)
    analysis,       \* useState<AnalysisResult | null>(null): <<>> or <<value>>
    error,          \* useState<string | null>(null)
    uploads,        \* the handleFileUpload calls awaiting their extraction
    calls,          \* the analyzeCodebase calls awaiting their response
    sent,           \* the call of each outbound request, in order
    settled,        \* the call that settled last, with the upstream event and
                    \* the outcome: <<>> or <<record>>
    consoleErr,     \* what console.error printed last: <<>> or <<value>>
    lastStarted,    \* the file of the upload started last: <<>> or <<file>>
    analysisFiles,  \* the file list that `analysis` was computed from
    nUploads,       \* uploads started
    nRuns           \* analyses started

vars ==
    <<collation, files, isUploading, isAnalyzing, analysis, error, uploads, calls,
      sent, settled, consoleErr, lastStarted, analysisFiles, nUploads, nRuns>>

NULL == "null"
InvalidZipMessage == "Please upload a valid ZIP file."
ExtractFailedMessage == "Failed to extract ZIP file. It might be corrupted."
AnalysisFailedMessage == "Gemini analysis failed. Please try again."
ZipSuffix == <<".", "z", "i", "p">>

Init ==
    /\ collation \in Collations
    /\ files = <<>>
    /\ isUploading = FALSE
    /\ isAnalyzing = FALSE
    /\ analysis = <<>>
    /\ error = NULL
    /\ uploads = {}
    /\ calls = {}
    /\ sent = <<>>
    /\ settled = <<>>
    /\ consoleErr = <<>>
    /\ lastStarted = <<>>
    /\ analysisFiles = <<>>
    /\ nUploads = 0
    /\ nRuns = 0

Reverse(seq) == [i \in 1..Len(seq) |-> seq[Len(seq) + 1 - i]]

(***************************************************************************)
(* handleFileUpload                                                        *)
(***************************************************************************)
\* A change event that carries no file: `if (!file) return`.
UploadNothing == UNCHANGED vars

\* A change event whose file is not named *.zip.
UploadRejected(file) ==
    /\ ~EndsWith(file.name, ZipSuffix)
    /\ error' = InvalidZipMessage
    /\ UNCHANGED <<collation, files, isUploading, isAnalyzing, analysis, uploads,
                   calls, sent, settled, consoleErr, lastStarted, analysisFiles,
                   nUploads, nRuns>>

\* A change event with a *.zip file, up to `await zip.loadAsync(file)`.
UploadStart(file) ==
    /\ EndsWith(file.name, ZipSuffix)
    /\ nUploads < MaxUploads
    /\ isUploading' = TRUE
    /\ error' = NULL
    /\ analysis' = <<>>
    /\ files' = <<>>
    /\ uploads' = uploads \cup {[id |-> nUploads + 1, file |-> file]}
    /\ nUploads' = nUploads + 1
    /\ lastStarted' = <<file>>
    /\ UNCHANGED <<collation, isAnalyzing, calls, sent, settled, consoleErr,
                   analysisFiles, nRuns>>

\* The extraction of upload u completes: the entries are pushed as their decoding
\* finishes, sorted by path and installed; `finally` clears isUploading.
UploadDone(u) ==
    /\ u \in uploads
    /\ u.file.valid
    /\ \E pushed \in {u.file.entries, Reverse(u.file.entries)} :
          LET extractedFiles == [i \in 1..Len(pushed) |-> ExtractEntry(pushed[i])]
          IN  files' = SortByPath(collation, extractedFiles)
    /\ isUploading' = FALSE
    /\ uploads' = uploads \ {u}
    /\ UNCHANGED <<collation, isAnalyzing, analysis, error, calls, sent, settled,
                   consoleErr, lastStarted, analysisFiles, nUploads, nRuns>>

\* The extraction of upload u throws: the catch block, then `finally`.
UploadFailed(u) ==
    /\ u \in uploads
    /\ ~u.file.valid
    /\ error' = ExtractFailedMessage
    /\ consoleErr' = <<"zip error">>
    /\ isUploading' = FALSE
    /\ uploads' = uploads \ {u}
    /\ UNCHANGED <<collation, files, isAnalyzing, analysis, calls, sent, settled,
                   lastStarted, analysisFiles, nUploads, nRuns>>

(***************************************************************************)
(* runAnalysis                                                             *)
(***************************************************************************)
\* The Run Analysis button's `disabled` attribute.
RunDisabledOnEmpty == Len(files) = 0
RunDisabled == Len(files) = 0 \/ isAnalyzing

\* A click on Run Analysis, up to `await ai.models.generateContent(...)`.
RunAnalysis ==
    /\ ~RunDisabled
    /\ nRuns < MaxRuns
    /\ IF Len(files) = 0
       THEN UNCHANGED vars
       ELSE LET contextFiles == ContextFiles(files)
                filesContext == FilesContext(contextFiles)
            IN  /\ isAnalyzing' = TRUE
                /\ error' = NULL
                /\ calls' = calls \cup {[id |-> nRuns + 1,
                                         files |-> files,
                                         contextFiles |-> contextFiles,
                                         filesContext |-> filesContext,
                                         contents |-> Prompt(filesContext)]}
                /\ sent' = Append(sent, nRuns + 1)
                /\ nRuns' = nRuns + 1
                /\ UNCHANGED <<collation, files, isUploading, analysis, uploads,
                               settled, consoleErr, lastStarted, analysisFiles,
                               nUploads>>

\* `finally { setIsAnalyzing(false) }`
AfterRunStaysBusy == isAnalyzing
AfterRun == FALSE

\* The request of call c settles with `event`, and runAnalysis runs to its end.
AnalysisSettled(c, event) ==
    /\ c \in calls
    /\ LET outcome == Settle(event)
       IN  /\ settled' = <<[call |-> c.id, event |-> event, outcome |-> outcome]>>
           /\ IF outcome.kind = "Succeeded"
              THEN /\ analysis' = <<outcome.value>>
                   /\ analysisFiles' = c.files
                   /\ UNCHANGED <<error, consoleErr>>
              ELSE /\ error' = AnalysisFailedMessage
                   /\ consoleErr' = <<outcome.error>>
                   /\ UNCHANGED <<analysis, analysisFiles>>
    /\ isAnalyzing' = AfterRun
    /\ calls' = calls \ {c}
    /\ UNCHANGED <<collation, files, isUploading, uploads, sent, lastStarted,
                   nUploads, nRuns>>

(***************************************************************************)
(* The App: every interleaving of the user's events and the completions.   *)
(***************************************************************************)
Next ==
    \/ UploadNothing
    \/ \E file \in AppInputFiles : UploadRejected(file)
    \/ \E file \in AppInputFiles : UploadStart(file)
    \/ \E u \in uploads : UploadDone(u)
    \/ \E u \in uploads : UploadFailed(u)
    \/ RunAnalysis
    \/ \E c \in calls, event \in UpstreamEvents : AnalysisSettled(c, event)

Spec == Init /\ [][Next]_vars

(***************************************************************************)
(* The selector: one upload of an archive of SelArchives, then one run.    *)
(***************************************************************************)
SelNext ==
    \/ \E file \in SelInputFiles : nUploads = 0 /\ UploadStart(file)
    \/ \E u \in uploads : UploadDone(u)
    \/ RunAnalysis

SelSpec == Init /\ [][SelNext]_vars

(***************************************************************************)
(* Properties.  What a property needs of the serialized context it reads   *)
(* from the string itself, at the offsets the layout gives.                *)
(***************************************************************************)
SameLetter(a, b) ==
    \/ a = b
    \/ \E i \in 1..Len(UpperCase) : a = UpperCase[i] /\ b = LowerCase[i]

\* A non-directory entry whose name ends, whatever its case, in an extension
\* of the allow-list.
Eligible(e) ==
    /\ e.isDirectory = FALSE
    /\ \E x \in 1..Len(textExtensions) :
          LET ext == textExtensions[x]
              d == Len(e.name) - Len(ext)
          IN  d >= 0 /\ \A k \in 1..Len(ext) : SameLetter(e.name[d + k], ext[k])

EligibleIndices(fs) == {i \in 1..Len(fs) : Eligible(fs[i])}
\* The place of entry i among the eligible entries, in the order of the list.
ListRank(fs, i) == Cardinality({j \in EligibleIndices(fs) : j <= i})
\* The place of entry i among the eligible entries, by code units of the path.
LexicalRank(fs, i) ==
    Cardinality({j \in EligibleIndices(fs) :
                    CompareBy(CodeUnit, fs[j].path, fs[i].path, 1) <= 0})

TruncatedLen(e) == Min(MaxChars, Len(e.content))
HeaderOf(e) == FileLabel \o e.path \o ContentLabel
BlockLen(e) == Len(HeaderOf(e)) + TruncatedLen(e)

\* Where block k starts in the context of the entries cf (0 for the first).
RECURSIVE BlockOffset(_, _)
BlockOffset(cf, k) ==
    IF k = 1 THEN 0
    ELSE BlockOffset(cf, k - 1) + BlockLen(cf[k - 1]) + Len(Separator)

\* Where block k ends: before the next block's separator, or with the string.
BlockEnd(out, cf, k) ==
    IF k = Len(cf) THEN Len(out) ELSE BlockOffset(cf, k + 1) - Len(Separator)

HasHeaderAt(out, off, e) ==
    SubSeq(out, off + 1, off + Len(HeaderOf(e))) = HeaderOf(e)

\* Entry e has a block in the context `out` of the selected entries cf.
HasBlock(out, cf, e) ==
    \E k \in 1..Len(cf) : cf[k] = e /\ HasHeaderAt(out, BlockOffset(cf, k), e)

C2_ContentIsPrefix ==
    \A c \in calls :
        \A k \in 1..Len(c.contextFiles) :
            LET e == c.contextFiles[k]
                from == BlockOffset(c.contextFiles, k) + Len(HeaderOf(e))
                body == SubSeq(c.filesContext, from + 1,
                               BlockEnd(c.filesContext, c.contextFiles, k))
            IN  /\ Len(body) <= MaxChars
                /\ Len(body) <= Len(e.content)
                /\ body = SubSeq(e.content, 1, Len(body))
                /\ Len(body) = IF Len(e.content) > MaxChars THEN MaxChars
                               ELSE Len(e.content)

\* A request with a block cut to 5000 characters.
C2_Witness ==
    \E c \in calls :
        \E k \in 1..Len(c.contextFiles) :
            /\ Len(c.contextFiles[k].content) > MaxChars
            /\ Len(c.filesContext) > MaxChars

\* C7: the serialized context is the selected entries' blocks, in the order of
\* the input list, each headed FILE: <path>\nCONTENT:\n, with the separator
\* between consecutive blocks and nowhere after the last; no selected entry gives
\* the empty string.
C7_BlocksJoinedInOrder ==
    /\ FilesContext(ContextFiles(<<>>)) = <<>>
    /\ \A c \in calls :
          LET cf == c.contextFiles
              out == c.filesContext
              n == Len(cf)
              at(k) == CHOOSE i \in 1..Len(c.files) : c.files[i] = cf[k]
          IN  /\ \A k \in 1..n : \E i \in 1..Len(c.files) : c.files[i] = cf[k]
              /\ \A k \in 1..(n - 1) : at(k) < at(k + 1)
              /\ \A k \in 1..n : HasHeaderAt(out, BlockOffset(cf, k), cf[k])
              /\ \A k \in 1..(n - 1) :
                    SubSeq(out, BlockOffset(cf, k) + BlockLen(cf[k]) + 1,
                           BlockOffset(cf, k + 1)) = Separator
              /\ Len(out) = IF n = 0 THEN 0 ELSE BlockOffset(cf, n) + BlockLen(cf[n])

\* A request of several blocks, one of whose contents spells a separator.
C7_Witness ==
    \E c \in calls :
        /\ Len(c.contextFiles) > 2
        /\ \E k \in 1..Len(c.contextFiles) : c.contextFiles[k].content = ForgedContent

(***************************************************************************)
(* Properties of the client's outcome and of the App.                      *)
(***************************************************************************)
\* A body the schema accepts: JSON of an object with the five fields, typed.
Conforms(body) == body.kind = "json" /\ IsAnalysisResult(body.value)

\* The step that settles a call of analyzeCodebase.
Finishes == settled' # settled

\* C3: a response body that lacks a required field, has a field of the wrong
\* type or cannot be parsed makes analyzeCodebase fail; no result that is not a
\* full AnalysisResult is returned or shown.
C3_NonConformingBodyFails ==
    /\ \A i \in 1..Len(settled) :
          (settled[i].event.kind = "resolved" /\ ~Conforms(settled[i].event.body))
              => settled[i].outcome.kind = "Failed"
    /\ analysis # <<>> => IsAnalysisResult(analysis[1])

C5_OneRequestOneCompleteOutcome ==
    /\ \A i, j \in 1..Len(sent) : sent[i] = sent[j] => i = j
    /\ \A c \in calls : \E j \in 1..Len(sent) : sent[j] = c.id
    /\ \A i \in 1..Len(settled) :
          /\ \A c \in calls : c.id # settled[i].call
          /\ \E j \in 1..Len(sent) : sent[j] = settled[i].call
          /\ \/ settled[i].outcome.kind = "Failed"
             \/ /\ settled[i].outcome.kind = "Succeeded"
                /\ IsAnalysisResult(settled[i].outcome.value)

\* C6: at most one analysis request is outstanding, and a request starts only
\* while isAnalyzing is false and the file list is not empty.
C6_OneAnalysisInFlight ==
    /\ [](Cardinality(calls) <= 1)
    /\ [][\A c \in calls' \ calls :
             ~isAnalyzing /\ Len(files) > 0 /\ calls = {} /\ c.files = files]_vars

\* A second analysis in flight, started after the first one settled, while an
\* upload has emptied the file list.
C6_Witness ==
    /\ Cardinality(calls) = 1
    /\ settled # <<>>
    /\ Len(files) = 0
    /\ isAnalyzing

\* C8: the analysis shown was computed from the file list shown.
C8_AnalysisIsOfShownFiles ==
    analysis # <<>> => analysisFiles = files

\* What upload `file` installs when its extraction completes.
EntryList(file) ==
    SortByPath(collation, [i \in 1..Len(file.entries) |-> ExtractEntry(file.entries[i])])

\* C9: isUploading is true while an extraction is outstanding, and once none is,
\* the file list is that of the upload started last.
C9_OverlappingUploads ==
    /\ uploads # {} => isUploading
    /\ (uploads = {} /\ lastStarted # <<>> /\ lastStarted[1].valid)
          => files = EntryList(lastStarted[1])

\* C10, as stated: the step that settles an analysis ends runAnalysis with
\* isAnalyzing false; on success `analysis` is the result and `error` is null, on
\* failure `error` is set and `analysis` is unchanged.
C10_FinishClearsError ==
    [][Finishes =>
          /\ ~isAnalyzing'
          /\ settled'[1].outcome.kind = "Succeeded" =>
                analysis' = <<settled'[1].outcome.value>> /\ error' = NULL
          /\ settled'[1].outcome.kind = "Failed" =>
                error' = AnalysisFailedMessage /\ analysis' = analysis]_vars

\* C10, amended: the step that settles an analysis ends runAnalysis with
\* isAnalyzing false and the call no longer pending; on success `analysis` is the
\* result and `error` is left as it was, on failure `error` is set and `analysis`
\* is unchanged.
C10_FinishKeepsError ==
    [][Finishes =>
          /\ ~isAnalyzing'
          /\ \A c \in calls' : c.id # settled'[1].call
          /\ settled'[1].outcome.kind = "Succeeded" =>
                analysis' = <<settled'[1].outcome.value>> /\ error' = error
          /\ settled'[1].outcome.kind = "Failed" =>
                error' = AnalysisFailedMessage /\ analysis' = analysis]_vars

\* A second analysis that succeeded although an upload was refused meanwhile.
C10_Witness ==
    /\ settled # <<>>
    /\ settled[1].call = 2
    /\ settled[1].outcome.kind = "Succeeded"
    /\ error = InvalidZipMessage
    /\ analysis # <<>>
    /\ ~isAnalyzing

====
